---- MODULE Spec2Model ----
(***************************************************************************)
(* The internal credential lifecycle of claude_code_internal:              *)
(*   servers/auth.py        /auth/verify, /auth/refresh and the two        *)
(*                          module-level caches (discovery document, JWKS) *)
(*   servers/llm_gateway.py get_current_user and the protected endpoints   *)
(*   client/agent.py        the persisted token pair and ensure_token      *)
(*                                                                         *)
(* Four specifications share the variables:                                *)
(*   Spec        /auth/verify and its two caches, with two worker threads  *)
(*               serving requests concurrently;                            *)
(*   SpecTokens  the internal tokens: issued, refreshed, presented to the  *)
(*               gateway, around their expiry;                             *)
(*   SpecClient  the client-side token cache talking to the auth server,   *)
(*               the refresh loop and a get-token running side by side;    *)
(*   SpecLoop    the refresh loop on its own, time passing only while it   *)
(*               sleeps or waits for an answer.                            *)
(*                                                                         *)
(* Time is one integer clock in seconds.  It jumps to the instants around  *)
(* the deadlines the state holds (cache stamp + TTL, expires_at - margin,  *)
(* a token's exp): the second before, the second of, the second after.     *)
(*                                                                         *)
(* A JWT is modelled by what jwt.encode / jwt.decode make of it: its       *)
(* payload, the key that signed it and whether it parses.  jwt.encode is   *)
(* deterministic (HS256), so two tokens are the same string exactly when   *)
(* these are equal.                                                        *)
(***************************************************************************)
EXTENDS Integers, Sequences, FiniteSets, TLC

(* ------------------------------ config.py ------------------------------ *)

INTERNAL_JWT_TTL_HOURS == 3
INTERNAL_REFRESH_TTL_DAYS == 30
JWT_REFRESH_MARGIN_SECONDS == 300
JWT_TTL_SECONDS == 10800
OPENID_CACHE_TTL_SECONDS == 3600
INTERNAL_JWT_ALG == "HS256"

PLACEHOLDER_SECRET == "CHANGE_ME_INTERNAL_JWT_SECRET"
PLACEHOLDER_TENANT == "YOUR_TENANT_ID"
PLACEHOLDER_CLIENT == "YOUR_APP_REGISTRATION_CLIENT_ID"

\* The environments the servers are started in: fully configured, and each of
\* INTERNAL_JWT_SECRET / ENTRA_TENANT_ID / ENTRA_CLIENT_ID unset or left at its
\* placeholder.  The last one is the environment with nothing set (the
\* defaults of config.py).
Configured == [secret |-> "s3cret", tenant |-> "tid", client |-> "cid"]

Configs ==
    { Configured,
      [Configured EXCEPT !.secret = ""],
      [Configured EXCEPT !.secret = PLACEHOLDER_SECRET],
      [Configured EXCEPT !.tenant = ""],
      [Configured EXCEPT !.tenant = PLACEHOLDER_TENANT],
      [Configured EXCEPT !.client = ""],
      [Configured EXCEPT !.client = PLACEHOLDER_CLIENT],
      [secret |-> PLACEHOLDER_SECRET, tenant |-> "", client |-> ""] }

(* ------------------------------- bounds -------------------------------- *)

\* How many times the clock moves in one behaviour.
MaxAdvances == 2

(* --------------------------- Python's values --------------------------- *)

\* dict.get of a key the dict does not hold, and a JSON null.
Absent == "<absent>"
None == "<none>"

\* Python's truth value of an optional string.
Truthy(s) == s \notin {Absent, None, ""}

VARIABLES
    cfg,                  \* the environment: INTERNAL_JWT_SECRET, ENTRA_*
    now,                  \* the clock, in seconds
    advances,             \* how many times the clock has moved
    publishedKeys,        \* the key ids the identity provider publishes now
    openid_config_cache,  \* auth._openid_config_cache: <<>> or <<[data, ts]>>
    jwks_cache,           \* auth._jwks_cache: <<>> or <<[data, ts]>>
    req,                  \* per worker thread: where its /auth/verify stands
    held,                 \* a pair some client kept: <<>> or <<pair>>
    used,                 \* history: the first refresh token /auth/refresh accepted
    last,                 \* the last request answered, and its answer
    token_store,          \* ~/.claude/token.json
    cli,                  \* per local process: where its ensure_token stands
    ret                   \* the last ensure_token that ended, and how

clientVars == <<token_store, cli, ret>>

vars == <<cfg, now, advances, publishedKeys, openid_config_cache, jwks_cache,
          req, held, used, last, token_store, cli, ret>>

(* ------------------------------- tokens -------------------------------- *)

\* issuer_expected of _validate_entra_token, as a function of the tenant.
Issuer(tenant) == <<"https://login.microsoftonline.com/", tenant, "/v2.0">>

\* The key sets the identity provider publishes, before and after it rotates
\* its signing keys.
KeySetBefore == {"k1", "k2"}
KeySetAfter == {"k2", "k3"}

\* An Entra ID token: whether its header parses, the header's kid and alg,
\* whether its signature is the one of the issuer's key named by kid, and the
\* claims jwt.decode and verify() read.
BaseIdToken ==
    [hdr |-> "ok", kid |-> "k2", alg |-> "RS256", sig |-> "good",
     iss |-> Issuer("tid"), aud |-> "cid", expired |-> FALSE,
     oid |-> "u1", sub |-> "s1"]

\* The tokens posted to /auth/verify: the valid one, each way of being wrong
\* on its own, and every presence of oid and sub.
ExternalTokens ==
    {BaseIdToken}
    \cup {[BaseIdToken EXCEPT !.hdr = "bad"]}
    \cup {[BaseIdToken EXCEPT !.kid = k] : k \in {Absent, "", "k1", "k3", "k9"}}
    \cup {[BaseIdToken EXCEPT !.alg = a] : a \in {"HS256", "none"}}
    \cup {[BaseIdToken EXCEPT !.sig = "bad"]}
    \cup {[BaseIdToken EXCEPT !.iss = Issuer("evil")]}
    \cup {[BaseIdToken EXCEPT !.aud = "other"]}
    \cup {[BaseIdToken EXCEPT !.expired = TRUE]}
    \cup {[BaseIdToken EXCEPT !.oid = o, !.sub = s] :
            o \in {Absent, "", "u1"}, s \in {Absent, "", "s1"}}

\* VerifyRequest.device_id: Optional[str].
DeviceIds == {None, "d1"}

\* An internal JWT: fmt says whether it parses as a JWT at all, key is the
\* secret its HS256 signature was made with, the rest is its payload.
InternalToken(key, sub, device_id, type, exp) ==
    [fmt |-> "jwt", key |-> key, sub |-> sub, device_id |-> device_id,
     type |-> type, exp |-> exp]

Garbage == [fmt |-> "garbage", key |-> "", sub |-> Absent, device_id |-> Absent,
            type |-> Absent, exp |-> 0]

\* An X-Api-Key header that is present and empty.
EmptyValue == [Garbage EXCEPT !.fmt = "empty"]

\* An exp later than any instant the clock reaches.
FarFuture == 4 * INTERNAL_REFRESH_TTL_DAYS * 86400

\* Tokens made outside the server: signed with a key anyone can know (the
\* placeholder of config.py, the empty string, a guess), with payloads of
\* the caller's choosing.
ForgedTokens ==
    {Garbage}
    \cup {InternalToken(k, "u1", Absent, ty, FarFuture) :
            k \in {PLACEHOLDER_SECRET, "", "guess"}, ty \in {"refresh", "access"}}
    \cup {InternalToken(PLACEHOLDER_SECRET, s, Absent, "refresh", FarFuture) :
            s \in {Absent, ""}}
    \cup {InternalToken(PLACEHOLDER_SECRET, "u1", Absent, Absent, FarFuture),
          InternalToken(PLACEHOLDER_SECRET, "u1", Absent, "refresh", 0)}

(* --------------------------- servers/auth.py --------------------------- *)

\* IsCacheValid with the age compared by <=: an entry exactly TTL old still
\* counts as valid.
IsCacheValid_Inclusive(cache, t) ==
    /\ Len(cache) > 0
    /\ (t - cache[1].ts) <= OPENID_CACHE_TTL_SECONDS

\* _is_cache_valid(cache, key) at monotonic time t: the entry exists and is
\* younger than the TTL.
IsCacheValid(cache, t) ==
    /\ Len(cache) > 0
    /\ (t - cache[1].ts) < OPENID_CACHE_TTL_SECONDS

\* The two configuration checks at the head of _get_openid_config.
EntraUnconfigured(c) ==
    \/ c.tenant \in {"", PLACEHOLDER_TENANT}
    \/ c.client \in {"", PLACEHOLDER_CLIENT}

SecretUnconfigured(c) == c.secret \in {"", PLACEHOLDER_SECRET}

\* What a successful fetch of the discovery document returns.
DiscoveryDoc == [jwks_uri |-> "https://login.microsoftonline.com/keys"]

\* An HTTP answer: status, detail, and the TokenResponse when there is one.
Answer(status, detail, pair) ==
    [status |-> status, detail |-> detail, pair |-> pair]

\* IssueInternalTokens with one payload template for both tokens: the
\* refresh token carries the device_id too.
IssueInternalTokens_DeviceInRefresh(subject, device_id, t, secret) ==
    [access_token |->
        InternalToken(secret, subject, device_id, "access",
                      t + INTERNAL_JWT_TTL_HOURS * 3600),
     refresh_token |->
        InternalToken(secret, subject, device_id, "refresh",
                      t + INTERNAL_REFRESH_TTL_DAYS * 86400),
     expires_in |-> INTERNAL_JWT_TTL_HOURS * 3600]

\* _issue_internal_tokens(subject, device_id) at time t, signing with secret.
IssueInternalTokens(subject, device_id, t, secret) ==
    [access_token |->
        InternalToken(secret, subject, device_id, "access",
                      t + INTERNAL_JWT_TTL_HOURS * 3600),
     refresh_token |->
        InternalToken(secret, subject, Absent, "refresh",
                      t + INTERNAL_REFRESH_TTL_DAYS * 86400),
     expires_in |-> INTERNAL_JWT_TTL_HOURS * 3600]

\* EntraDecodeOk with the algorithm taken from the token's header instead
\* of the pinned list: whatever alg the header names is verified as such.
EntraDecodeOk_AlgFromHeader(tok, c) ==
    /\ tok.sig = "good"
    /\ ~tok.expired
    /\ tok.aud = c.client
    /\ tok.iss = Issuer(c.tenant)

\* EntraDecodeOk without the audience: a token the tenant issued for any
\* application passes.
EntraDecodeOk_AnyAudience(tok, c) ==
    /\ tok.alg = "RS256"
    /\ tok.sig = "good"
    /\ ~tok.expired
    /\ tok.iss = Issuer(c.tenant)

\* jwt.decode(id_token, key, algorithms=["RS256"], audience, issuer) with the
\* key the JWKS holds for the token's kid: the header's alg must be the
\* pinned one, the signature that key's, the token unexpired, aud and iss
\* the configured ones.
EntraDecodeOk(tok, c) ==
    /\ tok.alg = "RS256"
    /\ tok.sig = "good"
    /\ ~tok.expired
    /\ tok.aud = c.client
    /\ tok.iss = Issuer(c.tenant)

\* ValidateEntraToken with the key lookup by kid dropped: any key of the set
\* is taken.
ValidateEntraToken_AnyKey(tok, jwks, c) ==
    IF tok.hdr # "ok"
    THEN [status |-> 401, detail |-> "Invalid token header", claims |-> <<>>]
    ELSE IF ~Truthy(tok.kid)
    THEN [status |-> 401, detail |-> "Missing kid in token header", claims |-> <<>>]
    ELSE IF ~EntraDecodeOk(tok, c)
    THEN [status |-> 401, detail |-> "Invalid Entra token", claims |-> <<>>]
    ELSE [status |-> 200, detail |-> "",
          claims |-> <<[oid |-> tok.oid, sub |-> tok.sub]>>]

\* _validate_entra_token after _get_jwks() has returned jwks: the header, the
\* kid, the key lookup and jwt.decode.  claims is <<>> on failure.
ValidateEntraToken(tok, jwks, c) ==
    IF tok.hdr # "ok"
    THEN [status |-> 401, detail |-> "Invalid token header", claims |-> <<>>]
    ELSE IF ~Truthy(tok.kid)
    THEN [status |-> 401, detail |-> "Missing kid in token header", claims |-> <<>>]
    ELSE IF tok.kid \notin jwks.keys
    THEN [status |-> 401, detail |-> "Signing key not found for token", claims |-> <<>>]
    ELSE IF ~EntraDecodeOk(tok, c)
    THEN [status |-> 401, detail |-> "Invalid Entra token", claims |-> <<>>]
    ELSE [status |-> 200, detail |-> "",
          claims |-> <<[oid |-> tok.oid, sub |-> tok.sub]>>]

\* SubjectOf with the preference turned around: sub before oid.
SubjectOf_SubFirst(claims) == IF Truthy(claims.sub) THEN claims.sub ELSE claims.oid

\* claims.get("oid") or claims.get("sub")
SubjectOf(claims) == IF Truthy(claims.oid) THEN claims.oid ELSE claims.sub

\* VerifyAnswer without the check of the subject: a validated token with
\* neither oid nor sub gets a pair.
VerifyAnswer_NoSubjectCheck(tok, device_id, jwks, c, t) ==
    LET v == ValidateEntraToken(tok, jwks, c) IN
    IF v.status # 200
    THEN Answer(v.status, v.detail, <<>>)
    ELSE Answer(200, "",
                <<IssueInternalTokens(SubjectOf(v.claims[1]), device_id, t, c.secret)>>)

\* verify(req) from the return of _get_jwks() on, at time t.
VerifyAnswer(tok, device_id, jwks, c, t) ==
    LET v == ValidateEntraToken(tok, jwks, c) IN
    IF v.status # 200
    THEN Answer(v.status, v.detail, <<>>)
    ELSE IF ~Truthy(SubjectOf(v.claims[1]))
    THEN Answer(401, "Token has no subject", <<>>)
    ELSE Answer(200, "",
                <<IssueInternalTokens(SubjectOf(v.claims[1]), device_id, t, c.secret)>>)

\* jwt.decode(token, secret, algorithms=[INTERNAL_JWT_ALG]) at time t: the
\* token parses, its signature was made with secret, and exp is in the future.
InternalDecodeOk(tok, secret, t) ==
    /\ tok.fmt = "jwt"
    /\ tok.key = secret
    /\ tok.exp > t

\* RefreshAnswer of a server that remembers the refresh tokens it accepted
\* and refuses them from then on (single-use refresh tokens).
RefreshAnswer_SingleUse(tok, c, t) ==
    IF ~InternalDecodeOk(tok, c.secret, t) \/ tok \in used
    THEN Answer(401, "Invalid refresh token", <<>>)
    ELSE IF tok.type # "refresh"
    THEN Answer(400, "Token is not a refresh token", <<>>)
    ELSE IF ~Truthy(tok.sub)
    THEN Answer(400, "Refresh token has no subject", <<>>)
    ELSE Answer(200, "", <<IssueInternalTokens(tok.sub, None, t, c.secret)>>)

\* RefreshAnswer of a server that carries the device binding over: the new
\* access token gets the device_id of the access token the client holds.
RefreshAnswer_KeepsDeviceBinding(tok, c, t) ==
    IF ~InternalDecodeOk(tok, c.secret, t)
    THEN Answer(401, "Invalid refresh token", <<>>)
    ELSE IF tok.type # "refresh"
    THEN Answer(400, "Token is not a refresh token", <<>>)
    ELSE IF ~Truthy(tok.sub)
    THEN Answer(400, "Refresh token has no subject", <<>>)
    ELSE Answer(200, "",
                <<IssueInternalTokens(tok.sub,
                                      IF held = <<>> THEN None
                                      ELSE held[1].access_token.device_id,
                                      t, c.secret)>>)

\* refresh(req) at time t.
RefreshAnswer(tok, c, t) ==
    IF ~InternalDecodeOk(tok, c.secret, t)
    THEN Answer(401, "Invalid refresh token", <<>>)
    ELSE IF tok.type # "refresh"
    THEN Answer(400, "Token is not a refresh token", <<>>)
    ELSE IF ~Truthy(tok.sub)
    THEN Answer(400, "Refresh token has no subject", <<>>)
    ELSE Answer(200, "", <<IssueInternalTokens(tok.sub, None, t, c.secret)>>)

(* ------------------------ servers/llm_gateway.py ----------------------- *)

\* A header is <<>> when the request does not carry it.  Authorization is
\* <<[scheme, cred]>> ("<scheme> <cred>"), X-Api-Key is <<value>>.
NoHeader == <<>>

Authorization(scheme, tok) == <<[scheme |-> scheme, cred |-> tok]>>

\* ExtractToken with the two headers tried in the other order: X-Api-Key
\* first, the Bearer authorization only without it.
ExtractToken_ApiKeyFirst(authorization, x_api_key) ==
    IF Len(x_api_key) > 0 /\ x_api_key[1].fmt # "empty"
    THEN <<x_api_key[1]>>
    ELSE IF Len(authorization) > 0 /\ authorization[1].scheme = "Bearer"
    THEN <<authorization[1].cred>>
    ELSE <<>>

\* _extract_token(authorization, x_api_key): <<token>>, or <<>> when it raises.
ExtractToken(authorization, x_api_key) ==
    IF Len(authorization) > 0 /\ authorization[1].scheme = "Bearer"
    THEN <<authorization[1].cred>>
    ELSE IF Len(x_api_key) > 0 /\ x_api_key[1].fmt # "empty"
    THEN <<x_api_key[1]>>
    ELSE <<>>

\* GetCurrentUser without the check of the type claim.
GetCurrentUser_AnyType(authorization, x_api_key, c, t) ==
    LET tk == ExtractToken(authorization, x_api_key) IN
    IF SecretUnconfigured(c)
    THEN Answer(500, "Gateway is not configured (INTERNAL_JWT_SECRET)", <<>>)
    ELSE IF tk = <<>>
    THEN Answer(401, "Missing auth (Bearer or X-Api-Key)", <<>>)
    ELSE IF ~InternalDecodeOk(tk[1], c.secret, t)
    THEN Answer(401, "Invalid internal token", <<>>)
    ELSE Answer(200, "", <<>>)

\* get_current_user(authorization, x_api_key) at time t; pair is never set.
GetCurrentUser(authorization, x_api_key, c, t) ==
    LET tk == ExtractToken(authorization, x_api_key) IN
    IF SecretUnconfigured(c)
    THEN Answer(500, "Gateway is not configured (INTERNAL_JWT_SECRET)", <<>>)
    ELSE IF tk = <<>>
    THEN Answer(401, "Missing auth (Bearer or X-Api-Key)", <<>>)
    ELSE IF ~InternalDecodeOk(tk[1], c.secret, t)
    THEN Answer(401, "Invalid internal token", <<>>)
    ELSE IF tk[1].type # "access"
    THEN Answer(401, "Token is not an access token", <<>>)
    ELSE Answer(200, "", <<>>)

\* The protected endpoints.  FastAPI resolves Depends(get_current_user)
\* before it runs the endpoint's body; /invoke and /v1/chat/completions then
\* call bedrock.invoke_model, /invoke-with-response-stream raises 501.
Endpoints == {"/invoke", "/invoke-with-response-stream", "/v1/chat/completions"}

\* GatewayAnswer of endpoints that call the backend before the result of
\* get_current_user is looked at.
GatewayAnswer_ForwardFirst(endpoint, authorization, x_api_key, c, t) ==
    LET user == GetCurrentUser(authorization, x_api_key, c, t)
        sent == endpoint # "/invoke-with-response-stream" IN
    IF user.status # 200
    THEN [status |-> user.status, detail |-> user.detail, forwarded |-> sent]
    ELSE IF endpoint = "/invoke-with-response-stream"
    THEN [status |-> 501, detail |-> "Streaming not implemented", forwarded |-> FALSE]
    ELSE [status |-> 200, detail |-> "", forwarded |-> TRUE]

GatewayAnswer(endpoint, authorization, x_api_key, c, t) ==
    LET user == GetCurrentUser(authorization, x_api_key, c, t) IN
    IF user.status # 200
    THEN [status |-> user.status, detail |-> user.detail, forwarded |-> FALSE]
    ELSE IF endpoint = "/invoke-with-response-stream"
    THEN [status |-> 501, detail |-> "Streaming not implemented", forwarded |-> FALSE]
    ELSE [status |-> 200, detail |-> "", forwarded |-> TRUE]

(* ------------------------- the server's state -------------------------- *)

Threads == {1, 2}

\* No request answered yet; also the shape of every record of `last`.
\*   id_token, device_id   the body of a /auth/verify
\*   token                 the internal token a /auth/refresh or the gateway
\*                         decoded (<<>> when none was extracted)
\*   minted                whether that token came out of this server
\*   reused                whether /auth/refresh had accepted it before
\*   fetched               the documents the request fetched and stored
\*   failed                the document whose fetch failed, "" when none did
\*   keys                  <<the key set _get_jwks() returned>>
\*   overwroteFresh        the request stored a key set over an entry that
\*                         was still within its TTL
NoLast ==
    [op |-> "none", status |-> 0, detail |-> "", pair |-> <<>>,
     id_token |-> <<>>, device_id |-> None,
     token |-> <<>>, minted |-> FALSE,
     endpoint |-> "", authorization |-> <<>>, x_api_key |-> <<>>,
     forwarded |-> FALSE,
     fetched |-> <<>>, failed |-> "", keys |-> <<>>, overwroteFresh |-> FALSE,
     reused |-> FALSE]

Idle == [pc |-> "idle", fetched |-> <<>>]

(* ------------------------- the client's state -------------------------- *)

\* The local processes that call ensure_token: the refresh loop
\* (refresh_loop_cli) and an on-demand get-token (get_token_cli).
Callers == {"refresh-loop", "get-token"}

\* TokenData(access_token, refresh_token, expires_at).
TokenData(access_token, refresh_token, expires_at) ==
    [access_token |-> access_token, refresh_token |-> refresh_token,
     expires_at |-> expires_at]

\* token.json: it does not exist, or it holds <<>> (opened for writing and
\* not written yet: an empty file) or <<the TokenData written>>.
NoFile == [exists |-> FALSE, content |-> <<>>]
EmptyFile == [exists |-> TRUE, content |-> <<>>]
FileOf(token) == [exists |-> TRUE, content |-> <<token>>]

\* A process outside ensure_token.  In a process inside it:
\*   loaded   <<what load_token returned>>, <<>> for None
\*   at       the time is_expiring_soon read
\*   entra    <<the identity token the identity flow gave>>
\*   token    <<the TokenData being saved>>
\*   resp     <<the answer of the auth server>>, on its way back
\*   calls    the network calls made so far
\*   wrote    whether save_token has opened the file
\*   wake     (the refresh loop) the time its sleep ends
IdleCli ==
    [pc |-> "idle", loaded |-> <<>>, at |-> 0, entra |-> <<>>, token |-> <<>>,
     resp |-> <<>>, calls |-> <<>>, wrote |-> FALSE, wake |-> 0]

\* No ensure_token has ended; also the shape of every record of `ret`:
\* who called, "ok" or "raised", the exception, <<the TokenData returned>>,
\* and the loaded / at / calls / wrote / resp / wake of the process (wake:
\* the end of the sleep the refresh loop made this call after).
NoRet ==
    [who |-> "none", outcome |-> "", error |-> "", token |-> <<>>,
     loaded |-> <<>>, at |-> 0, calls |-> <<>>, wrote |-> FALSE, resp |-> <<>>,
     wake |-> 0]

Init ==
    /\ cfg \in Configs
    /\ now = 0
    /\ advances = 0
    /\ publishedKeys = KeySetBefore
    /\ openid_config_cache = <<>>
    /\ jwks_cache = <<>>
    /\ req = [t \in Threads |-> Idle]
    /\ held = <<>>
    /\ used = {}
    /\ last = NoLast
    /\ token_store = NoFile
    /\ cli = [p \in Callers |-> IdleCli]
    /\ ret = NoRet

\* No answer is on its way to a caller, and no result of ensure_token to its.
Ready == last.op = "none" /\ ret.who = "none"

\* The instants the clock may jump to: the second before, the second of and
\* the second after each deadline the state holds.
Around(deadline) == {deadline - 1, deadline, deadline + 1}

\* The instants around the expiry of the two caches.
CacheDeadlines ==
    UNION {Around(c[1].ts + OPENID_CACHE_TTL_SECONDS) :
            c \in {x \in {openid_config_cache, jwks_cache} : Len(x) > 0}}

\* The last second each token a client holds is valid in, and the first one
\* it is expired in.
TokenDeadlines ==
    IF held = <<>> THEN {}
    ELSE UNION {{tk.exp - 1, tk.exp} :
                  tk \in {held[1].access_token, held[1].refresh_token}}

\* Time passes: the clock jumps to one of the instants given.
Advance(deadlines) ==
    /\ advances < MaxAdvances
    /\ \E t \in deadlines :
          /\ t > now
          /\ now' = t
    /\ advances' = advances + 1

Tick(deadlines) ==
    /\ Ready
    /\ Advance(deadlines)
    /\ UNCHANGED <<clientVars, cfg, publishedKeys, openid_config_cache, jwks_cache, req, held, used, last>>

\* The identity provider rotates its signing keys.
RotateKeys ==
    /\ Ready
    /\ publishedKeys = KeySetBefore
    /\ publishedKeys' = KeySetAfter
    /\ UNCHANGED <<clientVars, cfg, now, advances, openid_config_cache, jwks_cache, req, held, used, last>>

\* The caller reads the answer; a client that received a pair keeps it in
\* place of the one it held, or drops it.  `last` is the answer on its way to
\* the caller: the next step of a behaviour is the caller's, so that every
\* answer is looked at in the state it was given in.
Collect(keep) ==
    /\ last.op # "none"
    /\ last' = NoLast
    /\ held' = IF keep /\ last.pair # <<>> THEN last.pair ELSE held
    /\ UNCHANGED <<clientVars, cfg, now, advances, publishedKeys, openid_config_cache,
                   jwks_cache, req, used>>


(* -------------------------- POST /auth/verify -------------------------- *)
(* verify() runs in a worker thread (a sync FastAPI endpoint), so two      *)
(* requests interleave; a thread can be preempted between the cache check, *)
(* each httpx.get and the store.  The request body is first read after     *)
(* _get_jwks() has returned (auth.py:126), so the model draws it in the    *)
(* step that answers the request.                                          *)

\* The answer of thread th's /auth/verify, and the thread back to idle.
VerifyDone(th, tok, dev, ans, fetched, failed, keys, fresh) ==
    /\ Ready
    /\ last' = [NoLast EXCEPT !.op = "verify", !.status = ans.status,
                              !.detail = ans.detail, !.pair = ans.pair,
                              !.id_token = <<tok>>, !.device_id = dev,
                              !.fetched = fetched, !.failed = failed,
                              !.keys = keys, !.overwroteFresh = fresh]
    /\ req' = [req EXCEPT ![th] = Idle]
    /\ UNCHANGED <<held, used>>

\* _get_jwks, auth.py:106-107: the cached key set is valid and is returned;
\* the rest of verify() follows.
VerifyJwksCached(th, tok, dev) ==
    /\ req[th].pc = "idle"
    /\ IsCacheValid(jwks_cache, now)
    /\ VerifyDone(th, tok, dev,
                  VerifyAnswer(tok, dev, jwks_cache[1].data, cfg, now),
                  <<>>, "", <<jwks_cache[1].data>>, FALSE)
    /\ UNCHANGED <<clientVars, cfg, now, advances, publishedKeys, openid_config_cache, jwks_cache>>

\* _get_jwks, auth.py:106,109: no valid key set; on to _get_openid_config.
VerifyJwksStale(th) ==
    /\ Ready
    /\ req[th].pc = "idle"
    /\ ~IsCacheValid(jwks_cache, now)
    /\ req' = [req EXCEPT ![th].pc = "cfg_check"]
    /\ UNCHANGED <<clientVars, cfg, now, advances, publishedKeys, openid_config_cache,
                   jwks_cache, held, used, last>>

\* _get_openid_config, auth.py:78-90: the service is not configured.
OpenidConfigUnconfigured(th, tok, dev) ==
    /\ req[th].pc = "cfg_check"
    /\ EntraUnconfigured(cfg) \/ SecretUnconfigured(cfg)
    /\ VerifyDone(th, tok, dev,
                  Answer(500,
                         IF EntraUnconfigured(cfg)
                         THEN "Auth server is not configured (ENTRA_TENANT_ID/ENTRA_CLIENT_ID)"
                         ELSE "Auth server is not configured (INTERNAL_JWT_SECRET)",
                         <<>>),
                  req[th].fetched, "", <<>>, FALSE)
    /\ UNCHANGED <<clientVars, cfg, now, advances, publishedKeys, openid_config_cache, jwks_cache>>

\* _get_openid_config, auth.py:92-93: the cached discovery document is valid.
OpenidConfigCached(th) ==
    /\ Ready
    /\ req[th].pc = "cfg_check"
    /\ ~(EntraUnconfigured(cfg) \/ SecretUnconfigured(cfg))
    /\ IsCacheValid(openid_config_cache, now)
    /\ req' = [req EXCEPT ![th].pc = "jwks_fetch"]
    /\ UNCHANGED <<clientVars, cfg, now, advances, publishedKeys, openid_config_cache,
                   jwks_cache, held, used, last>>

\* _get_openid_config, auth.py:92,95: it is not; the GET is sent.
OpenidConfigStale(th) ==
    /\ Ready
    /\ req[th].pc = "cfg_check"
    /\ ~(EntraUnconfigured(cfg) \/ SecretUnconfigured(cfg))
    /\ ~IsCacheValid(openid_config_cache, now)
    /\ req' = [req EXCEPT ![th].pc = "cfg_fetch"]
    /\ UNCHANGED <<clientVars, cfg, now, advances, publishedKeys, openid_config_cache,
                   jwks_cache, held, used, last>>

\* auth.py:97-101: the discovery document arrives and is stored with the
\* time of its arrival.
FetchOpenidConfigOk(th) ==
    /\ Ready
    /\ req[th].pc = "cfg_fetch"
    /\ openid_config_cache' = <<[data |-> DiscoveryDoc, ts |-> now]>>
    /\ req' = [req EXCEPT ![th].pc = "jwks_fetch",
                          ![th].fetched = Append(@, "config")]
    /\ UNCHANGED <<clientVars, cfg, now, advances, publishedKeys, jwks_cache, held, used, last>>

\* auth.py:97-98: httpx.get or raise_for_status raises; nothing catches it,
\* and the framework answers 500.
FetchOpenidConfigFail(th, tok, dev) ==
    /\ req[th].pc = "cfg_fetch"
    /\ VerifyDone(th, tok, dev, Answer(500, "Internal Server Error", <<>>),
                  req[th].fetched, "config", <<>>, FALSE)
    /\ UNCHANGED <<clientVars, cfg, now, advances, publishedKeys, openid_config_cache, jwks_cache>>

\* _get_jwks, auth.py:112-116, then the rest of verify(): the key set
\* arrives, is stored with the time of its arrival, and is used.
FetchJwksOk(th, tok, dev) ==
    LET data == [keys |-> publishedKeys] IN
    /\ req[th].pc = "jwks_fetch"
    /\ jwks_cache' = <<[data |-> data, ts |-> now]>>
    /\ VerifyDone(th, tok, dev, VerifyAnswer(tok, dev, data, cfg, now),
                  Append(req[th].fetched, "jwks"), "", <<data>>,
                  IsCacheValid(jwks_cache, now))
    /\ UNCHANGED <<clientVars, cfg, now, advances, publishedKeys, openid_config_cache>>

\* FetchJwksFail falling back to the expired entry when there is one.
FetchJwksFail_StaleFallback(th, tok, dev) ==
    /\ req[th].pc = "jwks_fetch"
    /\ VerifyDone(th, tok, dev,
                  IF Len(jwks_cache) > 0
                  THEN VerifyAnswer(tok, dev, jwks_cache[1].data, cfg, now)
                  ELSE Answer(500, "Internal Server Error", <<>>),
                  req[th].fetched, "jwks", <<>>, FALSE)
    /\ UNCHANGED <<clientVars, cfg, now, advances, publishedKeys, openid_config_cache, jwks_cache>>

\* auth.py:112-113: the key-set fetch fails; nothing catches it.
FetchJwksFail(th, tok, dev) ==
    /\ req[th].pc = "jwks_fetch"
    /\ VerifyDone(th, tok, dev, Answer(500, "Internal Server Error", <<>>),
                  req[th].fetched, "jwks", <<>>, FALSE)
    /\ UNCHANGED <<clientVars, cfg, now, advances, publishedKeys, openid_config_cache, jwks_cache>>

(* -------------------------- POST /auth/refresh ------------------------- *)

\* The internal tokens a caller can present: the ones of the pair a client
\* kept (minted by this server), forged ones, and the refresh tokens that
\* were presented with success before (a client or a thief kept them).
MintedTokens ==
    IF held = <<>> THEN {} ELSE {held[1].access_token, held[1].refresh_token}

Presentable == MintedTokens \cup ForgedTokens \cup used

Refresh(tok) ==
    LET ans == RefreshAnswer(tok, cfg, now) IN
    /\ Ready
    /\ last' = [NoLast EXCEPT !.op = "refresh", !.status = ans.status,
                              !.detail = ans.detail, !.pair = ans.pair,
                              !.token = <<tok>>, !.minted = (tok \in MintedTokens),
                              !.reused = (tok \in used)]
    /\ used' = IF ans.status = 200 /\ used = {} THEN {tok} ELSE used
    /\ UNCHANGED <<clientVars, cfg, now, advances, publishedKeys, openid_config_cache,
                   jwks_cache, req, held>>

(* ------------------------------ the gateway ---------------------------- *)

\* The tokens sent to the gateway: the minted ones, and forged ones.
GatewayTokens ==
    MintedTokens
    \cup {Garbage,
          InternalToken(PLACEHOLDER_SECRET, "u1", Absent, "access", FarFuture),
          InternalToken(PLACEHOLDER_SECRET, "u1", Absent, "refresh", FarFuture)}

\* The header bundles a request can carry: no credential, one credential in
\* either header, and for a minted token the bundles with both headers.
HeaderBundles ==
    { <<NoHeader, NoHeader>>, <<NoHeader, <<EmptyValue>> >> }
    \cup UNION { { <<Authorization("Bearer", tok), NoHeader>>,
                   <<NoHeader, <<tok>> >> } : tok \in GatewayTokens }
    \cup UNION { { <<Authorization("Basic", tok), NoHeader>>,
                   <<Authorization("Bearer", tok), <<Garbage>> >>,
                   <<Authorization("Bearer", Garbage), <<tok>> >>,
                   <<Authorization("Basic", Garbage), <<tok>> >> } :
                 tok \in MintedTokens }

Gateway(endpoint, authorization, x_api_key) ==
    LET ans == GatewayAnswer(endpoint, authorization, x_api_key, cfg, now)
        tk == ExtractToken(authorization, x_api_key) IN
    /\ Ready
    /\ last' = [NoLast EXCEPT !.op = "gateway", !.status = ans.status,
                              !.detail = ans.detail, !.forwarded = ans.forwarded,
                              !.endpoint = endpoint,
                              !.authorization = authorization,
                              !.x_api_key = x_api_key,
                              !.token = tk,
                              !.minted = (tk # <<>> /\ tk[1] \in MintedTokens)]
    /\ UNCHANGED <<clientVars, cfg, now, advances, publishedKeys, openid_config_cache,
                   jwks_cache, req, held, used>>

(* --------------------------- client/agent.py --------------------------- *)
(* ensure_token as the steps other processes can interleave with: the read *)
(* of token.json, each HTTP exchange (sent, then answered), and the two    *)
(* halves of save_token (open("w") truncates, json.dump writes).           *)

\* IsExpiringSoon with the margin one second wider: the pair counts as
\* expiring from the second before the boundary on.
IsExpiringSoon_OneSecondEarly(token, t) ==
    token.expires_at - t <= JWT_REFRESH_MARGIN_SECONDS + 1

\* TokenData.is_expiring_soon() read at time t.
IsExpiringSoon(token, t) ==
    token.expires_at - t < JWT_REFRESH_MARGIN_SECONDS

Max(a, b) == IF a >= b THEN a ELSE b

\* No answer: the connection failed or timed out (httpx.TransportError).
TransportError == Answer(0, "httpx.TransportError", <<>>)

\* SleepFor without the floor of 60 seconds.
SleepFor_NoFloor(token, t) ==
    token.expires_at - t - JWT_REFRESH_MARGIN_SECONDS

\* SleepFor aimed at the expiry itself, without the refresh margin.
SleepFor_UntilExpiry(token, t) ==
    Max(60, token.expires_at - t)

\* refresh_loop_cli, agent.py:418: the sleep after ensure_token returned
\* token at time t.
SleepFor(token, t) ==
    Max(60, token.expires_at - t - JWT_REFRESH_MARGIN_SECONDS)

\* ensure_token ends in process p: it returns the token or raises.  The
\* refresh loop computes its sleep from the token returned; an exception
\* leaves the loop (and the process), which is started again later.
Return(p, outcome, error, token, c) ==
    /\ ret' = [who |-> p, outcome |-> outcome, error |-> error, token |-> token,
               loaded |-> c.loaded, at |-> c.at, calls |-> c.calls,
               wrote |-> c.wrote, resp |-> c.resp, wake |-> c.wake]
    /\ cli' = [cli EXCEPT ![p] =
                 [IdleCli EXCEPT !.wake =
                    IF p = "refresh-loop" /\ outcome = "ok"
                    THEN now + SleepFor(token[1], now)
                    ELSE 0]]

\* The caller of ensure_token has taken its result.
Returned ==
    /\ ret.who # "none"
    /\ ret' = NoRet
    /\ UNCHANGED <<cfg, now, advances, publishedKeys, openid_config_cache,
                   jwks_cache, req, held, used, last, token_store, cli>>

\* agent.py:390-391, 398-401: load_token, then the branch on what it gave.
EnsureLoad(p) ==
    /\ Ready
    /\ cli[p].pc = "idle"
    /\ now >= cli[p].wake
    /\ IF ~token_store.exists
       THEN /\ cli' = [cli EXCEPT ![p].pc = "identity"]
            /\ UNCHANGED ret
       ELSE IF token_store.content = <<>>
       THEN Return(p, "raised", "json.JSONDecodeError", <<>>, cli[p])
       ELSE LET token == token_store.content[1]
                c == [cli[p] EXCEPT !.loaded = <<token>>, !.at = now] IN
            IF IsExpiringSoon(token, now)
            THEN /\ cli' = [cli EXCEPT ![p] = [c EXCEPT !.pc = "refresh"]]
                 /\ UNCHANGED ret
            ELSE Return(p, "ok", "", <<token>>, c)
    /\ UNCHANGED <<cfg, now, advances, publishedKeys, openid_config_cache,
                   jwks_cache, req, held, used, last, token_store>>

\* agent.py:393-394: get_device_id, then the Azure CLI or the MSAL device
\* code flow gives an identity token (entra = <<the token>>), or the flow
\* fails (entra = <<>>) and RuntimeError is raised.
IdentityFlow(p, entra) ==
    /\ Ready
    /\ cli[p].pc = "identity"
    /\ LET c == [cli[p] EXCEPT !.calls = Append(@, "identity")] IN
       IF entra = <<>>
       THEN Return(p, "raised", "RuntimeError", <<>>, c)
       ELSE /\ cli' = [cli EXCEPT ![p] = [c EXCEPT !.pc = "exchange",
                                                   !.entra = entra]]
            /\ UNCHANGED ret
    /\ UNCHANGED <<cfg, now, advances, publishedKeys, openid_config_cache,
                   jwks_cache, req, held, used, last, token_store>>

\* agent.py:357-358: POST /auth/verify; the server answers from the key set
\* the identity provider publishes, or no answer comes.
ExchangeSend(p, reached) ==
    /\ Ready
    /\ cli[p].pc = "exchange"
    /\ cli' = [cli EXCEPT ![p].pc = "exchange_recv",
                          ![p].calls = Append(@, "/auth/verify"),
                          ![p].resp =
                             IF reached
                             THEN <<VerifyAnswer(cli[p].entra[1], "d1",
                                                 [keys |-> publishedKeys],
                                                 cfg, now)>>
                             ELSE <<TransportError>>]
    /\ UNCHANGED <<cfg, now, advances, publishedKeys, openid_config_cache,
                   jwks_cache, req, held, used, last, token_store, ret>>

\* The TokenData a client builds from a TokenResponse received at time t.
TokenDataOf(pair, t) ==
    TokenData(pair.access_token, pair.refresh_token, t + pair.expires_in)

\* What httpx raises for an answer: nothing for a 2xx.
RaisedFor(resp) ==
    IF resp.status = 0 THEN "httpx.TransportError"
    ELSE IF resp.status >= 400 THEN "httpx.HTTPStatusError"
    ELSE ""

\* agent.py:359-367: raise_for_status, then the TokenData stamped with the
\* client's clock.
ExchangeRecv(p) ==
    /\ Ready
    /\ cli[p].pc = "exchange_recv"
    /\ LET resp == cli[p].resp[1] IN
       IF RaisedFor(resp) # ""
       THEN Return(p, "raised", RaisedFor(resp), <<>>, cli[p])
       ELSE /\ cli' = [cli EXCEPT ![p].pc = "save_open",
                                  ![p].token = <<TokenDataOf(resp.pair[1], now)>>]
            /\ UNCHANGED ret
    /\ UNCHANGED <<cfg, now, advances, publishedKeys, openid_config_cache,
                   jwks_cache, req, held, used, last, token_store>>

\* agent.py:372-373: POST /auth/refresh with the loaded refresh token.
RefreshSend(p, reached) ==
    /\ Ready
    /\ cli[p].pc = "refresh"
    /\ cli' = [cli EXCEPT ![p].pc = "refresh_recv",
                          ![p].calls = Append(@, "/auth/refresh"),
                          ![p].resp =
                             IF reached
                             THEN <<RefreshAnswer(cli[p].loaded[1].refresh_token,
                                                  cfg, now)>>
                             ELSE <<TransportError>>]
    /\ UNCHANGED <<cfg, now, advances, publishedKeys, openid_config_cache,
                   jwks_cache, req, held, used, last, token_store, ret>>

\* agent.py:374-382: raise_for_status (which ends ensure_token: nothing
\* catches it), then the new TokenData.
RefreshRecv(p) ==
    /\ Ready
    /\ cli[p].pc = "refresh_recv"
    /\ LET resp == cli[p].resp[1] IN
       IF RaisedFor(resp) # ""
       THEN Return(p, "raised", RaisedFor(resp), <<>>, cli[p])
       ELSE /\ cli' = [cli EXCEPT ![p].pc = "save_open",
                                  ![p].token = <<TokenDataOf(resp.pair[1], now)>>]
            /\ UNCHANGED ret
    /\ UNCHANGED <<cfg, now, advances, publishedKeys, openid_config_cache,
                   jwks_cache, req, held, used, last, token_store>>

\* save_token, agent.py:120: open("w") creates or truncates token.json.
SaveOpen(p) ==
    /\ Ready
    /\ cli[p].pc = "save_open"
    /\ token_store' = EmptyFile
    /\ cli' = [cli EXCEPT ![p].pc = "save_write", ![p].wrote = TRUE]
    /\ UNCHANGED <<cfg, now, advances, publishedKeys, openid_config_cache,
                   jwks_cache, req, held, used, last, ret>>

\* save_token, agent.py:121: json.dump and close.
SaveWrite(p) ==
    /\ Ready
    /\ cli[p].pc = "save_write"
    /\ token_store' = FileOf(cli[p].token[1])
    /\ cli' = [cli EXCEPT ![p].pc = "saved"]
    /\ UNCHANGED <<cfg, now, advances, publishedKeys, openid_config_cache,
                   jwks_cache, req, held, used, last, ret>>

\* agent.py:397, 385 and 401: ensure_token returns the token it saved.
EnsureReturn(p) ==
    /\ Ready
    /\ cli[p].pc = "saved"
    /\ Return(p, "ok", "", cli[p].token, cli[p])
    /\ UNCHANGED <<cfg, now, advances, publishedKeys, openid_config_cache,
                   jwks_cache, req, held, used, last, token_store>>

\* The instants the client's behaviour changes at: around the refresh
\* boundary of the persisted pair, the last valid second of its refresh
\* token and the first expired one, the end of the refresh loop's sleep,
\* and, while an answer of the auth server is on its way (httpx waits up to
\* 30 s for it), the next second.
ClientDeadlines ==
    (IF token_store.content = <<>> THEN {}
     ELSE LET token == token_store.content[1] IN
          Around(token.expires_at - JWT_REFRESH_MARGIN_SECONDS)
          \cup {token.refresh_token.exp - 1, token.refresh_token.exp})
    \cup {cli["refresh-loop"].wake}
    \cup (IF \E p \in Callers : cli[p].pc \in {"exchange_recv", "refresh_recv"}
          THEN {now + 1} ELSE {})

(* --------------------------- the specification ------------------------- *)

\* The auth server's /auth/verify with its two caches: two worker threads,
\* the identity provider rotating its keys, the clock moving around the
\* caches' deadlines.
Next ==
    \/ Tick(CacheDeadlines)
    \/ RotateKeys
    \/ Collect(FALSE)
    \/ \E th \in Threads, tok \in ExternalTokens, dev \in {"d1"} :
          VerifyJwksCached(th, tok, dev)
    \/ \E th \in Threads : VerifyJwksStale(th)
    \/ \E th \in Threads, tok \in ExternalTokens, dev \in {"d1"} :
          OpenidConfigUnconfigured(th, tok, dev)
    \/ \E th \in Threads : OpenidConfigCached(th)
    \/ \E th \in Threads : OpenidConfigStale(th)
    \/ \E th \in Threads : FetchOpenidConfigOk(th)
    \/ \E th \in Threads, tok \in ExternalTokens, dev \in {"d1"} :
          FetchOpenidConfigFail(th, tok, dev)
    \/ \E th \in Threads, tok \in ExternalTokens, dev \in {"d1"} :
          FetchJwksOk(th, tok, dev)
    \/ \E th \in Threads, tok \in ExternalTokens, dev \in {"d1"} :
          FetchJwksFail(th, tok, dev)

Spec == Init /\ [][Next]_vars

\* The life of the internal tokens: one thread serving /auth/verify for the
\* tokens that differ in what is issued, /auth/refresh and the gateway fed
\* with what was issued and with forgeries, the clock moving around the
\* expiry of the tokens a client holds.
IssuingTokens ==
    {BaseIdToken,
     [BaseIdToken EXCEPT !.sig = "bad"],
     [BaseIdToken EXCEPT !.oid = Absent, !.sub = Absent]}

NextTokens ==
    \/ Tick(TokenDeadlines)
    \/ \E keep \in BOOLEAN : Collect(keep)
    \/ \E tok \in IssuingTokens, dev \in DeviceIds : VerifyJwksCached(1, tok, dev)
    \/ VerifyJwksStale(1)
    \/ \E tok \in IssuingTokens, dev \in DeviceIds :
          OpenidConfigUnconfigured(1, tok, dev)
    \/ OpenidConfigStale(1)
    \/ FetchOpenidConfigOk(1)
    \/ \E tok \in IssuingTokens, dev \in DeviceIds : FetchJwksOk(1, tok, dev)
    \/ \E tok \in Presentable : Refresh(tok)
    \/ \E e \in Endpoints, h \in HeaderBundles : Gateway(e, h[1], h[2])

SpecTokens == Init /\ [][NextTokens]_vars

\* The client: the refresh loop and an on-demand get-token sharing
\* token.json, against a configured auth server; the clock moving around
\* the refresh boundary and the refresh token's expiry.
InitClient == Init /\ cfg = Configured

NextClient ==
    \/ Tick(ClientDeadlines)
    \/ Returned
    \/ \E p \in Callers : EnsureLoad(p)
    \/ \E p \in Callers, entra \in {<<>>} \cup {<<tok>> : tok \in IssuingTokens} :
          IdentityFlow(p, entra)
    \/ \E p \in Callers, reached \in BOOLEAN : ExchangeSend(p, reached)
    \/ \E p \in Callers : ExchangeRecv(p)
    \/ \E p \in Callers, reached \in BOOLEAN : RefreshSend(p, reached)
    \/ \E p \in Callers : RefreshRecv(p)
    \/ \E p \in Callers : SaveOpen(p)
    \/ \E p \in Callers : SaveWrite(p)
    \/ \E p \in Callers : EnsureReturn(p)

SpecClient == InitClient /\ [][NextClient]_vars


\* The refresh loop on its own: the one process that calls ensure_token,
\* sleeps, and calls it again.  Time passes while the loop sleeps (it may
\* oversleep: time.sleep returns no earlier than asked) and while it waits
\* for an answer of the auth server; its other steps take no time.
LoopDeadlines ==
    IF cli["refresh-loop"].pc = "idle"
    THEN ClientDeadlines
    ELSE IF cli["refresh-loop"].pc \in {"exchange_recv", "refresh_recv"}
    THEN {now + 1}
    ELSE {}

NextLoop ==
    \/ Tick(LoopDeadlines)
    \/ Returned
    \/ EnsureLoad("refresh-loop")
    \/ \E entra \in {<<>>} \cup {<<tok>> : tok \in IssuingTokens} :
          IdentityFlow("refresh-loop", entra)
    \/ \E reached \in BOOLEAN : ExchangeSend("refresh-loop", reached)
    \/ ExchangeRecv("refresh-loop")
    \/ \E reached \in BOOLEAN : RefreshSend("refresh-loop", reached)
    \/ RefreshRecv("refresh-loop")
    \/ SaveOpen("refresh-loop")
    \/ SaveWrite("refresh-loop")
    \/ EnsureReturn("refresh-loop")

SpecLoop == InitClient /\ [][NextLoop]_vars

(* ------------------------------ the claims ----------------------------- *)

\* C1: a token minted as a refresh token is never accepted by the gateway's
\* get_current_user, and a token minted as an access token is never accepted
\* by /auth/refresh: the presentation ends in an error, and neither forwards
\* the request nor issues a pair.
C1_TokenTypesAreNotInterchangeable ==
    /\ (last.op = "gateway" /\ last.minted /\ last.token[1].type = "refresh")
          => (last.status \in {401, 500} /\ ~last.forwarded)
    /\ (last.op = "refresh" /\ last.minted /\ last.token[1].type = "access")
          => (last.status \in {400, 401} /\ last.pair = <<>>)

\* A minted, unexpired refresh token reached the gateway's type check.
C1_Witness ==
    /\ last.op = "gateway"
    /\ last.minted
    /\ last.token[1].type = "refresh"
    /\ last.detail = "Token is not an access token"

\* C2: an external token whose header key-id matches no key of the key set
\* _get_jwks() returned (cached or freshly fetched) is answered 401 "Signing
\* key not found for token", and no pair is issued.
C2_UnknownKeyIdIsRejected ==
    (/\ last.op = "verify"
     /\ last.keys # <<>>
     /\ last.id_token[1].hdr = "ok"
     /\ last.id_token[1].kid \notin {Absent, ""}
     /\ last.id_token[1].kid \notin last.keys[1].keys)
    => (/\ last.status = 401
        /\ last.detail = "Signing key not found for token"
        /\ last.pair = <<>>)

\* A token signed with a key the issuer no longer publishes was rejected
\* against a freshly fetched key set.
C2_Witness ==
    /\ last.op = "verify"
    /\ last.id_token[1].kid = "k1"
    /\ last.fetched # <<>>
    /\ last.keys = <<[keys |-> KeySetAfter]>>
    /\ last.detail = "Signing key not found for token"

\* C3: when /auth/verify succeeds, both tokens of the pair carry the external
\* token's subject: oid when oid is present and non-empty, otherwise sub; an
\* external token that passes verification gets a pair exactly when it has
\* such a subject, and with neither oid nor sub the call fails with no pair.
C3_SubjectIsOidElseSub ==
    last.op = "verify" =>
        LET tok == last.id_token[1]
            expected == IF tok.oid \notin {Absent, ""} THEN tok.oid ELSE tok.sub
            passes == /\ last.keys # <<>>
                      /\ tok.hdr = "ok"
                      /\ tok.kid \in last.keys[1].keys
                      /\ tok.alg = "RS256" /\ tok.sig = "good" /\ ~tok.expired
                      /\ tok.aud = cfg.client /\ tok.iss = Issuer(cfg.tenant)
        IN  /\ last.status = 200 =>
                /\ passes
                /\ last.pair # <<>>
                /\ last.pair[1].access_token.sub = expected
                /\ last.pair[1].refresh_token.sub = expected
            /\ (passes /\ expected \notin {Absent, ""}) => last.status = 200
            /\ (tok.oid \in {Absent, ""} /\ tok.sub \in {Absent, ""}) =>
                (last.status >= 400 /\ last.pair = <<>>)
            /\ (passes /\ expected \in {Absent, ""}) =>
                (last.status = 401 /\ last.detail = "Token has no subject")

\* A token without oid was given a pair for its sub.
C3_Witness ==
    /\ last.op = "verify"
    /\ last.status = 200
    /\ last.id_token[1].oid = Absent
    /\ last.pair[1].access_token.sub = "s1"
    /\ last.pair[1].refresh_token.sub = "s1"

\* C4: when ensure_token loads a persisted pair and reads the clock before
\* expires_at - JWT_REFRESH_MARGIN_SECONDS, it returns the persisted pair as
\* it is, having made no network call (no identity flow, no /auth/verify,
\* no /auth/refresh) and not having opened the token store for writing.
C4_FreshPairIsServedWithoutIO ==
    (/\ ret.who # "none"
     /\ ret.loaded # <<>>
     /\ ret.at < ret.loaded[1].expires_at - JWT_REFRESH_MARGIN_SECONDS)
    => (/\ ret.outcome = "ok"
        /\ ret.token = ret.loaded
        /\ ret.calls = <<>>
        /\ ~ret.wrote)

\* A pair issued at 0 is read in its last fresh second, 10499.
C4_Witness ==
    /\ ret.who # "none"
    /\ ret.loaded # <<>>
    /\ ret.loaded[1].expires_at = JWT_TTL_SECONDS
    /\ ret.at = JWT_TTL_SECONDS - JWT_REFRESH_MARGIN_SECONDS - 1
    /\ ret.outcome = "ok"
    /\ ret.calls = <<>>

\* C5: when ensure_token loads a persisted pair and reads the clock at or
\* after expires_at - JWT_REFRESH_MARGIN_SECONDS (the boundary included), it
\* makes exactly one refresh-or-reacquire call: one /auth/refresh or one
\* /auth/verify.
C5_OneRefreshAtOrPastBoundary ==
    (/\ ret.who # "none"
     /\ ret.loaded # <<>>
     /\ ret.at >= ret.loaded[1].expires_at - JWT_REFRESH_MARGIN_SECONDS)
    => Cardinality({i \in DOMAIN ret.calls :
                      ret.calls[i] \in {"/auth/refresh", "/auth/verify"}}) = 1

\* C6: ensure_token does not surface the failure of /auth/refresh: when it
\* raises after having called /auth/refresh for an expiring pair, it has
\* gone on to the identity flow (and, that succeeding, to /auth/verify), so
\* that what it raises is never the error of the refresh.
C6_RefreshFailureFallsBackToIdentityFlow ==
    (/\ ret.who # "none"
     /\ ret.calls # <<>>
     /\ ret.calls[1] = "/auth/refresh"
     /\ ret.outcome = "raised")
    => (/\ Len(ret.calls) >= 2
        /\ ret.calls[2] = "identity"
        /\ ret.error = "RuntimeError" \/ ret.calls[Len(ret.calls)] = "/auth/verify")

\* C7: under any interleaving of concurrent /auth/verify requests, at most
\* one discovery fetch and at most one key-set fetch is made per TTL window:
\* two requests never have the same document's fetch pending at once, and no
\* request stores a key set over an entry that is still within its TTL.
C7_AtMostOneFetchPerWindow ==
    /\ Cardinality({th \in Threads : req[th].pc = "cfg_fetch"}) <= 1
    /\ Cardinality({th \in Threads : req[th].pc = "jwks_fetch"}) <= 1
    /\ last.op = "verify" => ~last.overwroteFresh

\* C8: a /auth/verify that finds the key set younger than the TTL (3600 s)
\* answers from the cached key set with no fetch and no change of the
\* caches, and only then; one that finds it TTL old or older fetches the key
\* set exactly once, and the entry it leaves is the fetched key set alone,
\* stamped with the time it arrived.
C8_Fresh ==
    /\ Len(jwks_cache) > 0
    /\ now - jwks_cache[1].ts < OPENID_CACHE_TTL_SECONDS

C8_KeySetCacheTtl ==
    [][ /\ \A th \in Threads :
              (req[th].pc = "idle" /\ req'[th] # req[th]) => ~C8_Fresh
        /\ (last.op = "none" /\ last'.op = "verify" /\ req' = req) =>
              /\ C8_Fresh
              /\ last'.fetched = <<>>
              /\ last'.keys = <<jwks_cache[1].data>>
              /\ UNCHANGED <<openid_config_cache, jwks_cache>>
        /\ (last.op = "none" /\ last'.op = "verify" /\ req' # req
                /\ last'.keys # <<>>) =>
              /\ last'.fetched \in {<<"jwks">>, <<"config", "jwks">>}
              /\ jwks_cache' = <<[data |-> [keys |-> publishedKeys], ts |-> now]>>
              /\ last'.keys = <<jwks_cache'[1].data>>
        /\ jwks_cache' # jwks_cache =>
              (last'.op = "verify" /\ last'.fetched # <<>>)
      ]_vars

\* The key set fetched at 0 was fetched again by a verification at 3601.
C8_Witness ==
    /\ last.op = "verify"
    /\ now = 3601
    /\ last.fetched = <<"config", "jwks">>
    /\ jwks_cache[1].ts = 3601

C10_UnconfiguredIsRefused ==
    /\ (SecretUnconfigured(cfg) /\ last.op \in {"verify", "refresh", "gateway"})
          => (last.status = 500 /\ last.pair = <<>> /\ ~last.forwarded)
    /\ (EntraUnconfigured(cfg) /\ last.op = "verify")
          => (last.status = 500 /\ last.pair = <<>>)

\* C11: /auth/refresh answers 401, with no pair, to every token that does
\* not decode (bad signature, malformed, expired) or whose type is not
\* refresh; it answers 400, with no pair, to a decoded refresh-type token
\* without a subject, and 400 to nothing else.  (Stated of a server whose
\* secret is configured.)
C11_RefreshStatusCodes ==
    (last.op = "refresh" /\ ~SecretUnconfigured(cfg)) =>
       LET tok == last.token[1]
           decoded == InternalDecodeOk(tok, cfg.secret, now) IN
       /\ (~decoded \/ tok.type # "refresh")
             => (last.status = 401 /\ last.pair = <<>>)
       /\ (decoded /\ tok.type = "refresh" /\ ~Truthy(tok.sub))
             => (last.status = 400 /\ last.pair = <<>>)
       /\ last.status = 400
             => (decoded /\ tok.type = "refresh" /\ ~Truthy(tok.sub))

\* C12: a successful /auth/refresh returns a fresh pair: presented with the
\* refresh token of the pair a client holds, it returns a refresh token and
\* an access token that both differ from the ones of that pair, whenever
\* the refresh is made (the second of the pair's issuance included).
\* (Stated of a server whose secret is configured.)
C12_RefreshReturnsFreshPair ==
    (/\ last.op = "refresh"
     /\ last.status = 200
     /\ ~SecretUnconfigured(cfg)
     /\ held # <<>>
     /\ last.token[1] = held[1].refresh_token)
    => (/\ last.pair[1].refresh_token # held[1].refresh_token
        /\ last.pair[1].access_token # held[1].access_token)

\* C13: the server keeps no record of used refresh tokens: a refresh token
\* that /auth/refresh has accepted before is accepted again exactly when its
\* signature is valid and it has not expired, whatever pairs were issued (and
\* kept or dropped by the client) since.
C13_NoSingleUseEnforcement ==
    (last.op = "refresh" /\ last.reused)
    => (last.status = 200 <=> InternalDecodeOk(last.token[1], cfg.secret, now))

\* The refresh token of a pair that has since been rotated away (the client
\* holds a later pair with another refresh token) is accepted again.
C13_Witness ==
    /\ last.op = "refresh"
    /\ last.reused
    /\ last.status = 200
    /\ held # <<>>
    /\ held[1].refresh_token # last.token[1]
    /\ last.token[1].key = Configured.secret

\* C14: a configured gateway takes the credential from the Authorization
\* header when that carries the Bearer prefix, whatever X-Api-Key holds (the
\* request is answered as if X-Api-Key were not sent); otherwise it takes a
\* non-empty X-Api-Key (answered as if Authorization were not sent); with
\* neither, it answers 401 "Missing auth", decodes nothing and forwards
\* nothing.  (An unconfigured gateway answers 500 before it looks at the
\* headers.)
C14_BearerBeforeApiKey ==
    (last.op = "gateway" /\ ~SecretUnconfigured(cfg)) =>
       LET a == last.authorization
           k == last.x_api_key
           bearer == Len(a) > 0 /\ a[1].scheme = "Bearer"
           key == Len(k) > 0 /\ k[1].fmt # "empty"
           alone(auth, xkey) == GatewayAnswer(last.endpoint, auth, xkey, cfg, now) IN
       /\ bearer => /\ last.token = <<a[1].cred>>
                    /\ last.status = alone(a, NoHeader).status
                    /\ last.forwarded = alone(a, NoHeader).forwarded
       /\ (~bearer /\ key) => /\ last.token = <<k[1]>>
                              /\ last.status = alone(NoHeader, k).status
                              /\ last.forwarded = alone(NoHeader, k).forwarded
       /\ (~bearer /\ ~key) => /\ last.token = <<>>
                               /\ last.status = 401
                               /\ last.detail = "Missing auth (Bearer or X-Api-Key)"
                               /\ ~last.forwarded

\* A valid access token in the Bearer authorization and garbage in X-Api-Key:
\* the request is authenticated and forwarded.
C14_Witness ==
    /\ last.op = "gateway"
    /\ Len(last.authorization) > 0
    /\ last.authorization[1].scheme = "Bearer"
    /\ last.x_api_key = <<Garbage>>
    /\ last.minted
    /\ last.status = 200
    /\ last.forwarded

\* C15: on each protected endpoint the backend is called only for a request
\* get_current_user has accepted: a forwarded request carried a credential
\* that decodes with the configured secret, is unexpired and of type access,
\* and a request answered with an authentication error (401, or 500 for an
\* unconfigured gateway) was not forwarded.
C15_DownstreamOnlyAfterAuth ==
    last.op = "gateway" =>
       /\ last.forwarded =>
             /\ ~SecretUnconfigured(cfg)
             /\ last.token # <<>>
             /\ InternalDecodeOk(last.token[1], cfg.secret, now)
             /\ last.token[1].type = "access"
             /\ last.endpoint \in {"/invoke", "/v1/chat/completions"}
       /\ last.status \in {401, 500} => ~last.forwarded

\* An access token this server minted is presented in its first expired
\* second: 401, and nothing is forwarded.
C15_Witness ==
    /\ last.op = "gateway"
    /\ last.minted
    /\ last.token[1].type = "access"
    /\ last.token[1].exp = now
    /\ last.endpoint = "/v1/chat/completions"
    /\ last.status = 401
    /\ ~last.forwarded

\* C16: every pair the issuer mints (for /auth/verify and for /auth/refresh)
\* holds an access token and a refresh token for one subject, signed with
\* the configured secret; the access token has type access and the
\* device_id the issuer was given (the request's for verify, null for
\* refresh); the refresh token has type refresh and no device_id claim.
C16_IssuedPairShape ==
    last.pair # <<>> =>
       LET pair == last.pair[1]
           given == IF last.op = "verify" THEN last.device_id ELSE None IN
       /\ pair.access_token.fmt = "jwt"
       /\ pair.refresh_token.fmt = "jwt"
       /\ Truthy(pair.access_token.sub)
       /\ pair.access_token.sub = pair.refresh_token.sub
       /\ pair.access_token.key = cfg.secret
       /\ pair.refresh_token.key = cfg.secret
       /\ pair.access_token.type = "access"
       /\ pair.access_token.device_id = given
       /\ pair.refresh_token.type = "refresh"
       /\ pair.refresh_token.device_id = Absent

\* /auth/verify with device_id "d1" issued a pair.
C16_Witness ==
    /\ last.op = "verify"
    /\ last.device_id = "d1"
    /\ last.pair # <<>>
    /\ last.pair[1].access_token.device_id = "d1"
    /\ last.pair[1].refresh_token.device_id = Absent

\* C17: the expires_at of every pair in token.json equals the exp claim of
\* the access token stored with it (the server's clock at issuance plus the
\* access TTL), whatever time passed between the server issuing the pair and
\* the client receiving it.
C17_ExpiresAtIsAccessTokenExp ==
    token_store.content # <<>> =>
       token_store.content[1].expires_at = token_store.content[1].access_token.exp

\* C18: save_token replaces token.json atomically: whatever the interleaving
\* of a writer with the load_token of another local process, the reader
\* finds no file, the complete old pair or the complete new pair, and never
\* an empty or half-written document (which json.load cannot parse).
C18_SaveTokenIsAtomic ==
    ret.who # "none" => ret.error # "json.JSONDecodeError"

\* C19: two successful /auth/verify calls with the same id_token and the
\* same device_id return distinct pairs: the access tokens differ and the
\* refresh tokens differ, however close in time the calls are.  The first
\* call's pair is the one the client holds: while /auth/refresh has accepted
\* nothing, a held pair came from a /auth/verify, and the one id_token of
\* IssuingTokens that passes validation is BaseIdToken.
C19_VerifyIsNotIdempotent ==
    (/\ last.op = "verify"
     /\ last.status = 200
     /\ last.id_token = <<BaseIdToken>>
     /\ held # <<>>
     /\ used = {}
     /\ held[1].access_token.device_id = last.device_id)
    => (/\ last.pair[1].access_token # held[1].access_token
        /\ last.pair[1].refresh_token # held[1].refresh_token)

\* C20: a token whose header cannot be parsed is answered 401 "Invalid token
\* header" and a token without a key id 401 "Missing kid in token header"
\* before any key-set lookup: the request fetches neither the discovery
\* document nor the key set, no fetch of it fails, and the answer is the
\* same whatever the caches hold and whether the identity provider can be
\* reached.  (Stated of a configured server; an unconfigured one answers
\* 500 to these tokens as to every other.)
C20_HeaderChecksComeFirst ==
    (/\ last.op = "verify"
     /\ ~EntraUnconfigured(cfg)
     /\ ~SecretUnconfigured(cfg)
     /\ last.id_token[1].hdr # "ok" \/ ~Truthy(last.id_token[1].kid))
    => (/\ last.status = 401
        /\ last.detail = IF last.id_token[1].hdr # "ok"
                         THEN "Invalid token header"
                         ELSE "Missing kid in token header"
        /\ last.fetched = <<>>
        /\ last.failed = "")

\* C21: the signature of an external token is verified under RS256 only,
\* whatever its header says: a token whose header names another algorithm
\* (HS256, none), with a known key id and otherwise like a token that
\* passes, is answered 401 and gets no pair, and every token that gets a
\* pair has alg RS256 in its header.
C21_AlgorithmIsPinned ==
    last.op = "verify" =>
       /\ (/\ last.keys # <<>>
           /\ last.id_token[1].hdr = "ok"
           /\ last.id_token[1].kid \in last.keys[1].keys
           /\ last.id_token[1].alg # "RS256")
          => (/\ last.status = 401
              /\ last.detail = "Invalid Entra token"
              /\ last.pair = <<>>)
       /\ last.pair # <<>> => last.id_token[1].alg = "RS256"

\* A token that differs from the valid one only in its header alg, HS256,
\* reached jwt.decode and was refused.
C21_Witness ==
    /\ last.op = "verify"
    /\ last.id_token = <<[BaseIdToken EXCEPT !.alg = "HS256"]>>
    /\ last.keys # <<>>
    /\ last.status = 401
    /\ last.detail = "Invalid Entra token"

\* C22: an external token with a known key id and a valid RS256 signature
\* gets a pair only if its iss is the issuer URL of the configured tenant,
\* its aud the configured client id, and it is unexpired; with any of the
\* three wrong, /auth/verify answers 401 and issues no pair.
C22_IssuerAudienceExpiry ==
    last.op = "verify" =>
       LET tok == last.id_token[1]
           claimsOk == /\ tok.iss = Issuer(cfg.tenant)
                       /\ tok.aud = cfg.client
                       /\ ~tok.expired IN
       /\ last.pair # <<>> => (last.status = 200 /\ claimsOk)
       /\ (/\ last.keys # <<>>
           /\ tok.hdr = "ok"
           /\ tok.kid \in last.keys[1].keys
           /\ tok.alg = "RS256"
           /\ tok.sig = "good"
           /\ ~claimsOk)
          => (/\ last.status = 401
              /\ last.detail = "Invalid Entra token"
              /\ last.pair = <<>>)

\* A validly signed token of the tenant, issued for another application,
\* was refused.
C22_Witness ==
    /\ last.op = "verify"
    /\ last.id_token = <<[BaseIdToken EXCEPT !.aud = "other"]>>
    /\ last.keys # <<>>
    /\ last.status = 401
    /\ last.pair = <<>>

\* C26: the access token of every pair /auth/refresh returns has device_id
\* null, whatever device_id the access token of the pair being replaced
\* carried: the device binding made at /auth/verify does not survive a
\* refresh.
C26_RefreshDropsDeviceBinding ==
    (last.op = "refresh" /\ last.pair # <<>>)
    => last.pair[1].access_token.device_id = None

\* The client holds a pair bound to device "d1" and refreshes it.
C26_Witness ==
    /\ last.op = "refresh"
    /\ last.status = 200
    /\ held # <<>>
    /\ held[1].access_token.device_id = "d1"
    /\ last.token[1] = held[1].refresh_token
    /\ last.pair[1].access_token.device_id = None

\* C28: every internal token issued, access or refresh, by /auth/verify or
\* by /auth/refresh, carries a non-empty subject; so does every token the
\* gateway's get_current_user accepts, though it checks for none.
C28_IssuedTokensHaveSubject ==
    /\ last.pair # <<>> => /\ Truthy(last.pair[1].access_token.sub)
                           /\ Truthy(last.pair[1].refresh_token.sub)
    /\ held # <<>> => /\ Truthy(held[1].access_token.sub)
                      /\ Truthy(held[1].refresh_token.sub)
    /\ (last.op = "gateway" /\ last.status \in {200, 501})
          => (last.token # <<>> /\ Truthy(last.token[1].sub))

\* The gateway accepted an access token this server issued.
C28_Witness ==
    /\ last.op = "gateway"
    /\ last.status = 200
    /\ last.minted
    /\ last.token[1].sub = "u1"

\* C23: the persisted pair has one writer: of the refresh loop and the
\* on-demand callers of ensure_token that find the same pair near its
\* expiry, at most one calls /auth/refresh and writes token.json for it.
C23_SingleWriter ==
    \A p, q \in Callers :
       (/\ p # q
        /\ cli[p].loaded # <<>>
        /\ cli[p].loaded = cli[q].loaded)
       => ~(/\ cli[p].pc \in {"refresh_recv", "save_open", "save_write"}
            /\ cli[q].pc \in {"refresh_recv", "save_open", "save_write"})

\* C24: each time ensure_token returns a pair to the refresh loop, the loop
\* sleeps max(60, expires_at - now - JWT_REFRESH_MARGIN_SECONDS) computed
\* from that pair: never less than 60 seconds, and when more, until exactly
\* expires_at - JWT_REFRESH_MARGIN_SECONDS of the pair.
C24_SleepInterval ==
    (ret.who = "refresh-loop" /\ ret.outcome = "ok") =>
       LET boundary == ret.token[1].expires_at - JWT_REFRESH_MARGIN_SECONDS
           wake == cli["refresh-loop"].wake IN
       /\ wake - now >= 60
       /\ boundary - now >= 60 => wake = boundary
       /\ boundary - now < 60 => wake = now + 60

\* The loop is returned, exactly at its boundary, the pair it has slept for
\* (no refresh): the interval computed is short of the floor, and it sleeps
\* 60 seconds.
C24_Witness ==
    /\ ret.who = "refresh-loop"
    /\ ret.outcome = "ok"
    /\ now = ret.token[1].expires_at - JWT_REFRESH_MARGIN_SECONDS
    /\ cli["refresh-loop"].wake = now + 60

\* C25: an ensure_token that finds no persisted pair runs the identity
\* flow, then /auth/verify, then writes token.json, in that order; and when
\* ensure_token returns a pair (found absent, fresh or near its expiry),
\* token.json holds exactly the pair returned, as a whole triple.
C25_StoreHoldsReturnedPair ==
    (ret.who # "none" /\ ret.outcome = "ok") =>
       /\ ret.loaded = <<>> => (ret.calls = <<"identity", "/auth/verify">> /\ ret.wrote)
       /\ token_store.content = ret.token

\* C29: under the refresh loop, with every refresh succeeding, the persisted
\* pair is replaced before its access token expires: each time the loop
\* wakes at the end of its sleep, the clock is before the expires_at of the
\* persisted pair; a wake-up exactly at expires_at - JWT_REFRESH_MARGIN_SECONDS
\* makes no refresh and is followed by a sleep of 60 seconds, and the wake-up
\* at the end of that sleep calls /auth/refresh.  (A loop that a failed
\* refresh has ended starts again with no sleep behind it.)
C29_LoopRefreshesBeforeExpiry ==
    (/\ ret.who = "refresh-loop"
     /\ ret.loaded # <<>>
     /\ ret.wake > 0
     /\ ret.at = ret.wake)
    => LET expires_at == ret.loaded[1].expires_at
           boundary == expires_at - JWT_REFRESH_MARGIN_SECONDS IN
       /\ ret.at < expires_at
       /\ ret.at >= boundary
       /\ ret.at = boundary => /\ ret.outcome = "ok"
                               /\ ret.calls = <<>>
                               /\ cli["refresh-loop"].wake = boundary + 60
       /\ ret.at > boundary => /\ ret.at = boundary + 60
                               /\ ret.calls # <<>>
                               /\ ret.calls[1] = "/auth/refresh"

\* The loop woke at the boundary of a pair, slept 60 seconds more, and on
\* this wake-up refreshed the pair, 240 seconds before it expired.
C29_Witness ==
    /\ ret.who = "refresh-loop"
    /\ ret.loaded # <<>>
    /\ ret.wake > 0
    /\ ret.at = ret.wake
    /\ ret.at = ret.loaded[1].expires_at - JWT_REFRESH_MARGIN_SECONDS + 60
    /\ ret.calls = <<"/auth/refresh">>
    /\ ret.outcome = "ok"

\* C27: while the cached key set is within its TTL, a /auth/verify whose
\* key-id is not in the cached set is answered 401 with no fetch and both
\* cache entries unchanged, and the key set is replaced only when its TTL
\* has elapsed.
C27_KeySetReplacedOnlyAfterTtl ==
    [][/\ (/\ last.op = "none"
           /\ last'.op = "verify"
           /\ req' = req
           /\ IsCacheValid(jwks_cache, now)
           /\ last'.id_token[1].hdr = "ok"
           /\ Truthy(last'.id_token[1].kid)
           /\ last'.id_token[1].kid \notin jwks_cache[1].data.keys)
          => (/\ last'.status = 401
              /\ last'.detail = "Signing key not found for token"
              /\ last'.fetched = <<>>
              /\ UNCHANGED <<openid_config_cache, jwks_cache>>)
       /\ jwks_cache' # jwks_cache => ~IsCacheValid(jwks_cache, now)
      ]_vars

====
